---- MODULE Spec2Model ----
(***************************************************************************)
(* Parallel LLM task-dispatch engine of the RAG dataset pipeline.          *)
(*                                                                         *)
(* One run of a dispatcher is modelled: the input file is loaded, every    *)
(* item is submitted to a ThreadPoolExecutor, the per-item runner calls    *)
(* the LLM with retries, and the collection loop (as_completed) writes the *)
(* records to the output file.  The repository holds several copies of     *)
(* this pipeline; `variant` selects the copy that is run:                  *)
(*   keyword   packages/rag/generation/1_Keyword_llm/core.py               *)
(*   question  packages/rag/generation/2_Question_llm/core.py              *)
(*   answer    Take away/core_parallel(answer).py                          *)
(*   template  Take away/llm_parallel_template.py                          *)
(*   bu1       1_Keyword_llm/prior version/BU 1/core.py                    *)
(*   bu2       1_Keyword_llm/prior version/BU 2/core.py                    *)
(***************************************************************************)
EXTENDS Integers, Sequences, FiniteSets, TLC

\* ---------------------------------------------------------------- bounds
MaxLines == 2
MaxWorkers == 2
MaxRetriesArg == 2
MaxKw == 4
MaxSamples == 3
MaxUtil == 2
MaxLimit == 2
MaxTxtLines == 6

\* ------------------------------------------------------ program constants
KeywordRetryCount == 3
AnswerRetryCount == 3
TemplateMaxRetries == 4
Bu1Calls == 1

\* markers used inside records
NoId == -1
OldId == -2
NoErr == 0
ErrNoCtx == -1
ErrPrompt == -2
ErrIntr == -3
NoRec == [item |-> 0, id |-> NoId, err |-> NoErr, att |-> 0, kind |-> "none"]
OldLine == [item |-> 0, id |-> OldId, err |-> NoErr, att |-> 0, kind |-> "old"]

\* no interrupt so far; otherwise: the number of records written and the items
\* waiting in the pool's queue at the moment of the interrupt
NoIntr == [on |-> FALSE, k |-> 0, queued |-> {}]

\* one LLM response as the parsers see it: the call raised or returned; the
\* keyword list it carried; the number of well-formed base questions; whether
\* its question lists start with a malformed entry; the keyword it gave a
\* question group for and the well-formed questions in it; whether one of its
\* fields is a number instead of a list
NoResp == [raises |-> FALSE, kws |-> <<>>, nbase |-> 0, bad |-> FALSE, pkw |-> "",
           pn |-> 0, shape |-> "ok"]
NoOut == [keywords |-> <<>>, nq |-> 0, success |-> FALSE]

\* one application of a normalizer: the function applied, the kind of its
\* argument, the response, the language code, the count and error context
\* asked of the fallback generator, the lines of a chunks.txt, the result
NoApp == [op |-> "none", arg |-> "none", resp |-> NoResp, lang |-> "en", count |-> 0,
          ctx |-> FALSE, txt |-> <<>>, out |-> NoOut]

\* successful_answers and failed_answers of parallel_answer_generation, n_done
\* of the question pipeline's main
NoCnt == [successful_answers |-> 0, failed_answers |-> 0, n_done |-> 0]

\* no monitor; otherwise: the hosting function, whether the output path has a
\* directory part, whether nvidia-smi exists, the position of the main thread,
\* the state of the monitor thread, the stop event, whether the dispatch
\* raised, the samples written, whether the statistics were read, whether a
\* sample was written after that, the maximum utilisation observed, the
\* outcome of the last nvidia-smi query
NoMon == [host |-> "none", hasdir |-> TRUE, smi |-> TRUE, main |-> "init", thr |-> "new",
          stop |-> FALSE, raised |-> FALSE, n |-> 0, read |-> FALSE, late |-> FALSE,
          max |-> 0, last |-> "none"]

Variants == {"keyword", "question", "answer", "template", "bu1", "bu2"}

VARIABLES
    variant,    \* which copy of the pipeline runs
    workers,    \* --workers
    retries,    \* --retries (question pipeline only)
    file,       \* lines of the input file
    pre,        \* lines the output file held before the run
    items,      \* work items produced by the loader
    pc,         \* position of the main thread
    st,         \* per item: state of its future / runner
    att,        \* per item: LLM invocations made so far
    res,        \* per item: record returned by the runner
    exc,        \* per item: exception the runner raised (error code)
    nsub,       \* number of items submitted (or started, sequential path)
    preFin,     \* futures already finished when as_completed was called
    waitq,      \* waiter.finished_futures: finished after the call, in order
    collected,  \* items in the order the collection loop consumed them
    results,    \* in-memory list of collected, not yet written records
    disk,       \* durable content of the output file
    buf,        \* records written to the stream but not yet flushed
    intr,       \* the KeyboardInterrupt the main thread received, if any
    app,        \* one application of a response normalizer: input and result
    backoff,    \* --backoff in milliseconds (question pipeline only)
    slept,      \* per item: the delays slept between its attempts, in ms
    mon,        \* the resource monitor thread and the function that hosts it
    cnt,        \* the counters of the collection loop
    limit,      \* --max-chunks / --limit / --max: the item cap, 0 for none
    gk          \* per item: the calls of generate_keywords made by _one_job

vars == <<variant, workers, retries, file, pre, items, pc, st, att, res, exc,
          nsub, preFin, waitq, collected, results, disk, buf, intr, app,
          backoff, slept, mon, cnt, limit, gk>>

\* the state of the dispatcher
dvars == <<variant, workers, retries, file, pre, items, pc, st, att, res, exc,
           nsub, preFin, waitq, collected, results, disk, buf, intr,
           backoff, slept, cnt, limit, gk>>

\* ------------------------------------------------------------ input lines
BlankLine == [k |-> "blank", llm |-> "ok", hascid |-> FALSE, lang |-> "str", ctx |-> TRUE]
BadLine == [k |-> "bad", llm |-> "ok", hascid |-> FALSE, lang |-> "str", ctx |-> TRUE]

RecLine(l, c, g, x) == [k |-> "rec", llm |-> l, hascid |-> c, lang |-> g, ctx |-> x]

LLMKinds == {"ok", "flaky", "down"}

\* the lines a file of each pipeline is drawn from
Lines(v) ==
    {BlankLine, BadLine} \cup
    CASE v = "question" ->
            {RecLine(l, FALSE, "str", TRUE) : l \in LLMKinds}
                \cup {RecLine("ok", TRUE, "str", TRUE)}
      [] v = "answer" ->
            {RecLine(l, TRUE, "str", TRUE) : l \in LLMKinds}
                \cup {RecLine("ok", TRUE, "null", TRUE), RecLine("ok", TRUE, "str", FALSE)}
      [] OTHER -> {RecLine(l, FALSE, "str", TRUE) : l \in LLMKinds}

Files(v) == UNION {[1..n -> Lines(v)] : n \in 0..MaxLines}

N == Len(items)
Idx == 1..N

\* ----------------------------------------------------------------- loader
\* a work item: its zero-based line number, the upstream chunk_id it carries
\* (its ordinal among the records of the file, NoId when the field is absent)
MkItem(ln, lineNo, ord) ==
    [line |-> lineNo, llm |-> ln.llm, cid |-> IF ln.hascid THEN ord ELSE NoId,
     lang |-> ln.lang, ctx |-> ln.ctx]

RECURSIVE ParseFrom(_, _, _)
ParseFrom(f, k, ord) ==
    IF k > Len(f) THEN <<>>
    ELSE IF f[k].k = "rec"
         THEN <<MkItem(f[k], k - 1, ord)>> \o ParseFrom(f, k + 1, ord + 1)
         ELSE ParseFrom(f, k + 1, ord)

\* blank lines and lines that are not JSON are skipped
ParseLines(f) == ParseFrom(f, 1, 0)

\* read_jsonl of the template: the loop over the lines ends as soon as limit
\* items have been read (limit = 0: never)
RECURSIVE ReadJsonl(_, _, _, _)
ReadJsonl(f, k, ord, lim) ==
    IF k > Len(f) THEN <<>>
    ELSE LET here == IF f[k].k = "rec" THEN <<MkItem(f[k], k - 1, ord)>> ELSE <<>>
             n == ord + Len(here)
         IN IF f[k].k # "blank" /\ lim # 0 /\ n >= lim THEN here
            ELSE here \o ReadJsonl(f, k + 1, n, lim)

\* (mutation of LoadItems: the cap counts the lines read, not the items)
LoadItemsByLines(v, f, lim) ==
    IF lim > 0 THEN ParseLines(SubSeq(f, 1, IF lim < Len(f) THEN lim ELSE Len(f)))
    ELSE ParseLines(f)

\* the work items of a run: the parsed records, cut to the first lim of them
\* when a cap is given (chunks[:max_chunks]; the question pipeline filters
\* its generator by position)
LoadItems(v, f, lim) ==
    IF v = "template" THEN ReadJsonl(f, 1, 0, lim)
    ELSE IF lim > 0
         THEN SubSeq(ParseLines(f), 1, IF lim < Len(ParseLines(f)) THEN lim
                                       ELSE Len(ParseLines(f)))
         ELSE ParseLines(f)

\* the answer loader calls json.loads without a guard
LoadRaises(v, f) == v = "answer" /\ \E k \in 1..Len(f) : f[k].k = "bad"

\* ------------------------------------------------------- variant switches
\* the collection loop wraps future.result() in try/except
GuardsResult(v) == v \in {"question", "template", "bu2"}

\* each record is written inside the collection loop
Streams(v) == v \in {"keyword", "question", "answer"}

\* the loop calls flush() after write()
FlushesEachWrite(v) == v = "answer"

\* results are sorted by chunk_id before they are written
SortsBeforeWrite(v) == v \in {"bu1", "bu2"}

\* the output file is opened before the items are submitted
OpensBeforeSubmit(v) == v \in {"keyword", "question", "answer", "bu1"}

\* workers == 1 takes the plain for-loop instead of the pool
SeqPath(v, w) == v \in {"keyword", "bu1"} /\ w = 1

\* (mutation of MaxAttempts: the question loop runs range(retries))
MaxAttemptsOffByOne(v, r) ==
    CASE v = "question" -> r
      [] v = "answer" -> AnswerRetryCount
      [] v = "template" -> TemplateMaxRetries + 1
      [] v = "bu1" -> Bu1Calls
      [] OTHER -> KeywordRetryCount

\* number of LLM invocations a runner makes before it gives up
MaxAttempts(v, r) ==
    CASE v = "question" -> r + 1
      [] v = "answer" -> AnswerRetryCount
      [] v = "template" -> TemplateMaxRetries + 1
      [] v = "bu1" -> Bu1Calls
      [] OTHER -> KeywordRetryCount

\* ------------------------------------------------------------ output file
\* (mutation of OpenW: the file is opened with "a")
OpenAppend(d) == d

\* open(path, "w") truncates
OpenW(d) == <<>>

\* (mutation of WriteRec: a flush forgets the records still in the buffer)
WriteRecLossy(v, d, b, r, spill) ==
    IF FlushesEachWrite(v) \/ spill
    THEN <<d \o <<r>>, <<>>>>
    ELSE <<d, Append(b, r)>>

\* write one record; flush moves the stream buffer to the file
WriteRec(v, d, b, r, spill) ==
    IF FlushesEachWrite(v) \/ spill
    THEN <<d \o b \o <<r>>, <<>>>>
    ELSE <<d, Append(b, r)>>

\* ------------------------------------------------------------------ backoff
\* values of --backoff, in milliseconds (the default is 1.2)
BackoffArgs == {0, 1200}

\* backoff_base of call_chat_completions, in tenths (1.8)
TemplateBackoffBase == 18

RECURSIVE Pow(_, _)
Pow(b, e) == IF e = 0 THEN 1 ELSE b * Pow(b, e - 1)

\* (mutation of Delay: the exponent counts the attempts that are left)
DelayShrinking(v, b, a) ==
    CASE v = "question" -> (a + 1) * b
      [] v = "answer" -> 500 * (a + 1)
      [] v = "template" -> Pow(TemplateBackoffBase, 3 - a) * Pow(10, a) + 100 * a
      [] OTHER -> Pow(2, a) * 1000

\* the delay in milliseconds slept after the failed attempt with loop index a
\* (template: backoff_base ** a + 0.1 * a, for a up to max_retries - 1 = 3)
Delay(v, b, a) ==
    CASE v = "question" -> (a + 1) * b
      [] v = "answer" -> 500 * (a + 1)
      [] v = "template" -> Pow(TemplateBackoffBase, a) * Pow(10, 3 - a) + 100 * a
      [] OTHER -> Pow(2, a) * 1000

\* ------------------------------------------------------------ the LLM mock
\* deterministic: the k-th call (1-based) for an item raises or returns
LLMRaises(it, k) == it.llm = "down" \/ (it.llm = "flaky" /\ k = 1)

\* ---------------------------------------------------------------- records
\* chunk_id written in the record of item i
OutId(v, it, i) ==
    CASE v = "question" -> IF it.cid # NoId THEN it.cid ELSE it.line
      [] v = "answer" -> it.cid
      [] v = "template" -> NoId
      [] OTHER -> i - 1

\* (mutation of SuccessRec: "attempt" is the zero-based loop index)
SuccessRecZeroBased(v, it, i, k) ==
    [item |-> i, id |-> OutId(v, it, i), err |-> NoErr,
     att |-> IF v = "answer" THEN k - 1 ELSE 0, kind |-> "ok"]

\* record built from the response of the k-th call ("attempt": attempt + 1 in
\* the answer runner, whose loop index is k - 1)
SuccessRec(v, it, i, k) ==
    [item |-> i, id |-> OutId(v, it, i), err |-> NoErr,
     att |-> IF v = "answer" THEN k ELSE 0, kind |-> "ok"]

\* record produced when the last attempt raised (k = number of that attempt)
ExhaustedRec(v, it, i, k) ==
    CASE v = "question" ->
            [item |-> i, id |-> OutId(v, it, i), err |-> k, att |-> 0, kind |-> "placeholder"]
      [] v = "answer" ->
            [item |-> i, id |-> OutId(v, it, i), err |-> k, att |-> 0, kind |-> "failed"]
      [] OTHER ->
            [item |-> i, id |-> OutId(v, it, i), err |-> NoErr, att |-> 0, kind |-> "fallback"]

\* the template's runner has no record for an exhausted item: it raises
ExhaustRaises(v) == v = "template"

NoContextRec(i) == [item |-> i, id |-> NoId, err |-> ErrNoCtx, att |-> 0, kind |-> "failed"]

FutureErrorRec(v, it, i, e) ==
    IF v = "question"
    THEN [item |-> i, id |-> it.line, err |-> e, att |-> 0, kind |-> "placeholder"]
    ELSE [item |-> i, id |-> NoId, err |-> e, att |-> 0, kind |-> "exc"]

\* ------------------------------------------------------------------- Init
Init ==
    /\ variant \in Variants
    /\ workers \in 1..MaxWorkers
    /\ retries \in 0..MaxRetriesArg
    /\ (variant # "question" => retries = 0)
    /\ file \in Files(variant)
    /\ pre \in {<<>>, <<OldLine>>}
    /\ items = <<>>
    /\ pc = "init"
    /\ st = <<>>
    /\ att = <<>>
    /\ res = <<>>
    /\ exc = <<>>
    /\ nsub = 0
    /\ preFin = {}
    /\ waitq = <<>>
    /\ collected = <<>>
    /\ results = <<>>
    /\ disk = pre
    /\ buf = <<>>
    /\ intr = NoIntr
    /\ app = NoApp
    /\ backoff \in BackoffArgs
    /\ (variant # "question" => backoff = 0)
    /\ slept = <<>>
    /\ mon = NoMon
    /\ cnt = NoCnt
    /\ gk = <<>>
    /\ limit \in 0..MaxLimit

\* ------------------------------------------------------------ main thread
\* main(): read the input, open the output
Load ==
    /\ pc = "init"
    /\ IF LoadRaises(variant, file)
       THEN /\ pc' = "fatal"
            /\ UNCHANGED <<items, st, att, res, exc, disk, slept, gk>>
       ELSE LET its == LoadItems(variant, file, limit) IN
            /\ items' = its
            /\ st' = [i \in 1..Len(its) |-> "new"]
            /\ att' = [i \in 1..Len(its) |-> 0]
            /\ res' = [i \in 1..Len(its) |-> NoRec]
            /\ exc' = [i \in 1..Len(its) |-> NoErr]
            /\ slept' = [i \in 1..Len(its) |-> <<>>]
            /\ gk' = [i \in 1..Len(its) |-> 0]
            /\ IF variant \in {"template", "bu2"} /\ Len(its) = 0
               THEN pc' = "done" /\ disk' = disk
               ELSE /\ pc' = IF SeqPath(variant, workers) THEN "seq" ELSE "submit"
                    /\ disk' = IF OpensBeforeSubmit(variant) THEN OpenW(disk) ELSE disk
    /\ UNCHANGED <<mon, cnt, limit, backoff, app, intr, variant, workers, retries, file, pre, nsub,
                   preFin, waitq, collected, results, buf>>

\* executor.submit(...) for the next item
Submit ==
    /\ pc = "submit"
    /\ nsub < N
    /\ nsub' = nsub + 1
    /\ st' = [st EXCEPT ![nsub + 1] = "queued"]
    /\ UNCHANGED <<mon, cnt, limit, gk, slept, backoff, app, intr, variant, workers, retries, file, pre, items, pc, att, res, exc,
                   preFin, waitq, collected, results, disk, buf>>

\* ---------------------------------------------------------- pool workers
Active(i) == st[i] \in {"running", "sleeping"}
Finished(i) == st[i] \in {"done", "raised"}

\* a future that finishes after as_completed installed its waiter is
\* appended to waiter.finished_futures
Notify(i) == IF pc = "collect" THEN Append(waitq, i) ELSE waitq

\* (mutation of WorkerFree: the pool starts a thread for every submitted item)
WorkerFreeUnbounded == TRUE

\* ThreadPoolExecutor(max_workers=workers): one of the worker threads is idle
WorkerFree == Cardinality({j \in Idx : Active(j)}) < workers

\* a free worker thread takes the oldest queued item and runs the code of the
\* runner that precedes its retry loop
Start(i) ==
    /\ pc \in {"submit", "collect", "aborting"}
    /\ st[i] = "queued"
    /\ \A j \in 1..(i - 1) : st[j] # "queued"
    /\ WorkerFree
    /\ IF variant = "answer" /\ ~items[i].ctx
       THEN /\ st' = [st EXCEPT ![i] = "done"]
            /\ res' = [res EXCEPT ![i] = NoContextRec(i)]
            /\ exc' = exc
            /\ waitq' = Notify(i)
       ELSE IF variant = "answer" /\ items[i].lang = "null"
       THEN /\ st' = [st EXCEPT ![i] = "raised"]
            /\ exc' = [exc EXCEPT ![i] = ErrPrompt]
            /\ res' = res
            /\ waitq' = Notify(i)
       ELSE /\ st' = [st EXCEPT ![i] = "running"]
            /\ UNCHANGED <<res, exc, waitq>>
    /\ UNCHANGED <<mon, cnt, limit, gk, slept, backoff, app, intr, variant, workers, retries, file, pre, items, pc, att, nsub,
                   preFin, collected, results, disk, buf>>

\* (mutation of Runnable: time.sleep is a process-wide pause)
RunnableGlobalSleep(i) == st[i] = "running" /\ \A j \in Idx : st[j] # "sleeping"

\* the thread that runs item i is not inside time.sleep
Runnable(i) == st[i] = "running"

\* (mutation of RunnerOutput: the runner writes the record it has built)
RunnerOutputWrites(d, r) == IF r = NoRec THEN d ELSE Append(d, r)

\* what a runner does to the output file with its record r: nothing, the
\* record is returned to the caller
RunnerOutput(d, r) == d

\* retries of the keyword _one_job (main passes none: the default)
KeywordOneJobRetries == 2

\* (mutation of GenerateKeywordsAbsorbs: the exception of the exhausted inner
\* retry loop propagates to _one_job)
GenerateKeywordsPropagates == FALSE

\* generate_keywords catches every Exception of _call_llm_with_retry and
\* returns placeholder keywords
GenerateKeywordsAbsorbs == TRUE

\* iterations of the for-loop of the keyword _one_job: it returns in its first
\* iteration unless generate_keywords raised
OneJobCalls(v) ==
    IF v = "keyword" /\ ~GenerateKeywordsAbsorbs THEN KeywordOneJobRetries + 1 ELSE 1

\* LLM invocations a runner can make for one item, over all its retry layers
CallBudget(v, r) == MaxAttempts(v, r) * OneJobCalls(v)

\* the k-th LLM invocation for an item is the first one of a call of
\* generate_keywords
EntersGenerateKeywords(v, k) == v = "keyword" /\ (k - 1) % KeywordRetryCount = 0

\* (mutation of SleepAfter: the backoff also follows the last failed attempt)
SleepAfterEveryFailure(v, b, r, s, k) == Append(s, Delay(v, b, k - 1))

\* the delays an item has slept, after its k-th call raised: the except
\* branch sleeps only when another attempt follows
SleepAfter(v, b, r, s, k) ==
    IF k < CallBudget(v, r) THEN Append(s, Delay(v, b, k - 1)) ELSE s

\* one iteration of the retry loop: invoke the LLM, build the record or
\* handle the exception
Call(i) ==
    /\ Runnable(i)
    /\ LET k == att[i] + 1
           it == items[i]
       IN
       /\ att' = [att EXCEPT ![i] = k]
       /\ gk' = [gk EXCEPT ![i] = IF EntersGenerateKeywords(variant, k) THEN @ + 1 ELSE @]
       /\ IF ~LLMRaises(it, k)
          THEN /\ st' = [st EXCEPT ![i] = "done"]
               /\ res' = [res EXCEPT ![i] = SuccessRec(variant, it, i, k)]
               /\ exc' = exc
               /\ waitq' = Notify(i)
               /\ slept' = slept
          ELSE /\ slept' = [slept EXCEPT ![i] = SleepAfter(variant, backoff, retries, @, k)]
               /\ IF k < CallBudget(variant, retries)
                  THEN /\ st' = [st EXCEPT ![i] = "sleeping"]
                       /\ UNCHANGED <<res, exc, waitq>>
                  ELSE IF ExhaustRaises(variant)
                  THEN /\ st' = [st EXCEPT ![i] = "raised"]
                       /\ exc' = [exc EXCEPT ![i] = k]
                       /\ res' = res
                       /\ waitq' = Notify(i)
                  ELSE /\ st' = [st EXCEPT ![i] = "done"]
                       /\ res' = [res EXCEPT ![i] = ExhaustedRec(variant, it, i, k)]
                       /\ exc' = exc
                       /\ waitq' = Notify(i)
       /\ disk' = RunnerOutput(disk, res'[i])
    /\ UNCHANGED <<mon, cnt, limit, backoff, app, intr, variant, workers, retries, file, pre, items, pc, nsub,
                   preFin, collected, results, buf>>

\* time.sleep(...) between two attempts returns
Wake(i) ==
    /\ st[i] = "sleeping"
    /\ st' = [st EXCEPT ![i] = "running"]
    /\ UNCHANGED <<mon, cnt, limit, gk, slept, backoff, app, intr, variant, workers, retries, file, pre, items, pc, att, res, exc,
                   nsub, preFin, waitq, collected, results, disk, buf>>

\* ------------------------------------------------- collection and output
\* list.sort(key=chunk_id): stable insertion of r into a sorted list
RECURSIVE InsertById(_, _)
InsertById(r, sorted) ==
    IF sorted = <<>> THEN <<r>>
    ELSE IF Head(sorted).id <= r.id
         THEN <<Head(sorted)>> \o InsertById(r, Tail(sorted))
         ELSE <<r>> \o sorted

RECURSIVE SortById(_)
SortById(rs) ==
    IF rs = <<>> THEN <<>>
    ELSE InsertById(rs[Len(rs)], SortById(SubSeq(rs, 1, Len(rs) - 1)))

\* as_completed(futures) is entered: the futures that are already finished
\* go into a set, a waiter is installed for the others
AsCompletedCall ==
    /\ pc = "submit"
    /\ nsub = N
    /\ pc' = "collect"
    /\ preFin' = {i \in Idx : Finished(i)}
    /\ disk' = IF variant = "bu2" THEN OpenW(disk) ELSE disk
    /\ UNCHANGED <<mon, cnt, limit, gk, slept, backoff, app, intr, variant, workers, retries, file, pre, items, st, att, res, exc,
                   nsub, waitq, collected, results, buf>>

\* (mutation of Count: failed_answers is not incremented)
CountSuccessOnly(v, c, r) ==
    CASE v = "answer" ->
            IF r.kind = "ok"
            THEN [c EXCEPT !.successful_answers = @ + 1]
            ELSE c
      [] v = "question" -> [c EXCEPT !.n_done = @ + 1]
      [] OTHER -> c

\* the counters after the collection loop has handled record r: the answer
\* loop counts by the success flag of the result, the question loop counts
\* the records written
Count(v, c, r) ==
    CASE v = "answer" ->
            IF r.kind = "ok"
            THEN [c EXCEPT !.successful_answers = @ + 1]
            ELSE [c EXCEPT !.failed_answers = @ + 1]
      [] v = "question" -> [c EXCEPT !.n_done = @ + 1]
      [] OTHER -> c

\* what the body of the collection loop does with the future of item i
Consume(i, spill) ==
    LET it == items[i] IN
    IF st[i] = "raised" /\ ~GuardsResult(variant)
    THEN /\ pc' = "aborting"
         /\ UNCHANGED <<results, disk, buf, cnt>>
    ELSE IF st[i] = "raised" /\ variant = "bu2"
    THEN UNCHANGED <<pc, results, disk, buf, cnt>>
    ELSE LET r == IF st[i] = "raised"
                  THEN FutureErrorRec(variant, it, i, exc[i])
                  ELSE res[i]
         IN
         /\ pc' = pc
         /\ cnt' = Count(variant, cnt, r)
         /\ IF Streams(variant)
            THEN /\ disk' = WriteRec(variant, disk, buf, r, spill)[1]
                 /\ buf' = WriteRec(variant, disk, buf, r, spill)[2]
                 /\ results' = results
            ELSE /\ results' = Append(results, r)
                 /\ UNCHANGED <<disk, buf>>

\* one iteration of "for fut in as_completed(futures)": the already finished
\* futures come first, in the order of a set; the others in finishing order
Collect ==
    /\ pc = "collect"
    /\ Len(collected) < N
    /\ \E i \in Idx, spill \in BOOLEAN :
        /\ IF preFin # {} THEN i \in preFin ELSE waitq # <<>> /\ i = Head(waitq)
        /\ preFin' = preFin \ {i}
        /\ waitq' = IF preFin # {} THEN waitq ELSE Tail(waitq)
        /\ collected' = Append(collected, i)
        /\ Consume(i, spill)
    /\ UNCHANGED <<mon, limit, gk, slept, backoff, app, intr, variant, workers, retries, file, pre, items, st, att, res, exc, nsub>>

\* the loop is over: the pool shuts down, buffered results are written, the
\* output file is closed
Finish ==
    /\ pc \in {"collect", "seq"}
    /\ Len(collected) = N
    /\ pc' = "done"
    /\ disk' = (IF variant = "template" THEN OpenW(disk) ELSE disk) \o buf
                    \o (IF SortsBeforeWrite(variant) THEN SortById(results) ELSE results)
    /\ buf' = <<>>
    /\ UNCHANGED <<mon, cnt, limit, gk, slept, backoff, app, intr, variant, workers, retries, file, pre, items, st, att, res, exc,
                   nsub, preFin, waitq, collected, results>>

\* an exception left the collection loop: ThreadPoolExecutor.__exit__ waits
\* for every submitted future, the file is closed, the exception goes on
Abort ==
    /\ pc = "aborting"
    /\ \A i \in Idx : st[i] = "new" \/ Finished(i)
    /\ pc' = "crashed"
    /\ disk' = disk \o buf
    /\ buf' = <<>>
    /\ UNCHANGED <<mon, cnt, limit, gk, slept, backoff, app, intr, variant, workers, retries, file, pre, items, st, att, res, exc,
                   nsub, preFin, waitq, collected, results>>

\* Ctrl-C: KeyboardInterrupt is raised in the main thread.  No dispatcher
\* handles it: it leaves the with-blocks like any exception (the pool's
\* __exit__ is shutdown(wait=True) without cancel_futures); on the inline path
\* it ends the runner in progress, whose handlers catch Exception only
Interrupt ==
    /\ ~intr.on
    /\ pc \in {"submit", "collect", "seq"}
    /\ intr' = [on |-> TRUE, k |-> Len(disk) + Len(buf),
                queued |-> {i \in Idx : st[i] = "queued"}]
    /\ IF pc = "seq"
       THEN /\ pc' = "crashed"
            /\ st' = [i \in Idx |-> IF Active(i) THEN "raised" ELSE st[i]]
            /\ exc' = [i \in Idx |-> IF Active(i) THEN ErrIntr ELSE exc[i]]
            /\ disk' = disk \o buf
            /\ buf' = <<>>
       ELSE /\ pc' = "aborting"
            /\ UNCHANGED <<st, exc, disk, buf>>
    /\ UNCHANGED <<mon, cnt, limit, gk, slept, backoff, app, variant, workers, retries, file, pre, items, att, res,
                   nsub, preFin, waitq, collected, results>>

\* workers == 1: the for-loop calls the runner of the next item inline
SeqStart ==
    /\ pc = "seq"
    /\ nsub < N
    /\ Len(collected) = nsub
    /\ nsub' = nsub + 1
    /\ st' = [st EXCEPT ![nsub + 1] = "running"]
    /\ UNCHANGED <<mon, cnt, limit, gk, slept, backoff, app, intr, variant, workers, retries, file, pre, items, pc, att, res, exc,
                   preFin, waitq, collected, results, disk, buf>>

\* ... and writes the record the runner returned
SeqWrite ==
    /\ pc = "seq"
    /\ nsub > 0
    /\ Len(collected) = nsub - 1
    /\ st[nsub] = "done"
    /\ collected' = Append(collected, nsub)
    /\ \E spill \in BOOLEAN :
        /\ disk' = WriteRec(variant, disk, buf, res[nsub], spill)[1]
        /\ buf' = WriteRec(variant, disk, buf, res[nsub], spill)[2]
    /\ UNCHANGED <<mon, cnt, limit, gk, slept, backoff, app, intr, variant, workers, retries, file, pre, items, pc, st, att, res, exc,
                   nsub, preFin, waitq, results>>

Next ==
    \/ Load
    \/ Submit
    \/ \E i \in Idx : Start(i)
    \/ \E i \in Idx : Call(i)
    \/ \E i \in Idx : Wake(i)
    \/ AsCompletedCall
    \/ Collect
    \/ Finish
    \/ Abort
    \/ Interrupt
    \/ SeqStart
    \/ SeqWrite

Spec == Init /\ [][Next]_vars

\* the main thread and every worker thread keep being scheduled, and every
\* LLM call and every sleep returns; an interrupt may or may not come
Fairness ==
    /\ WF_vars(Load)
    /\ WF_vars(Submit)
    /\ \A i \in 1..MaxLines :
            /\ WF_vars(i \in Idx /\ Start(i))
            /\ WF_vars(i \in Idx /\ Call(i))
            /\ WF_vars(i \in Idx /\ Wake(i))
    /\ WF_vars(AsCompletedCall)
    /\ WF_vars(Collect)
    /\ WF_vars(Finish)
    /\ WF_vars(Abort)
    /\ WF_vars(SeqStart)
    /\ WF_vars(SeqWrite)

FairSpec == Spec /\ Fairness

TypeOK ==
    /\ pc \in {"init", "fatal", "submit", "seq", "collect", "aborting", "crashed", "done"}
    /\ nsub \in 0..N
    /\ Len(collected) <= N

\* ==================================================== response normalizers
\* language codes of the keyword client; "auto" stands for every code its
\* branches do not name
Langs == {"en", "zh", "ja", "mixed", "auto"}

\* keywords an LLM can return: well-formed Latin ones (two of them equal up to
\* case), a blank one, one with trailing punctuation after a space, and a
\* two-character CJK word (written zh_word; CJK and kana text is spelled in
\* ASCII throughout, with a zh_ or ja_ prefix)
KwTokens == {"ai", "Ai", "Ml", "", "ai .", "zh_word"}

\* --base-n and --per-kw-n (defaults), n=3 keywords per chunk
BaseN == 5
PerKwN == 2
KwCount == 3

Min(a, b) == IF a < b THEN a ELSE b

\* s[:n]
Take(s, n) == SubSeq(s, 1, Min(n, Len(s)))

\* str.strip()
Strip(k) ==
    CASE k = "ai " -> "ai"
      [] k = "Ai " -> "Ai"
      [] OTHER -> k

\* kw.strip().strip('"\'.,;') followed by the removal of a leading "1." / "1)"
StripPunct(k) ==
    CASE k = "ai ." -> "ai "
      [] OTHER -> Strip(k)

\* str.lower()
Lower(k) ==
    CASE k = "Ai" -> "ai"
      [] k = "Ai " -> "ai "
      [] k = "Ml" -> "ml"
      [] k = "KW_1" -> "kw_1"
      [] k = "KW_2" -> "kw_2"
      [] k = "KW_3" -> "kw_3"
      [] OTHER -> k

\* str.title()
Title(k) ==
    CASE k = "ai" -> "Ai"
      [] k = "ai " -> "Ai "
      [] OTHER -> k

\* isinstance(k, str) and k.strip()
NonBlank(k) == Strip(k) # ""

\* order-preserving removal of the keywords that repeat an earlier one up to
\* case
RECURSIVE Dedupe(_)
Dedupe(s) ==
    IF s = <<>> THEN <<>>
    ELSE LET front == Dedupe(SubSeq(s, 1, Len(s) - 1))
             last == s[Len(s)]
         IN IF \E a \in 1..Len(front) : Lower(front[a]) = Lower(last) THEN front
            ELSE Append(front, last)

\* base_words of _generate_fallback_keywords
BaseWords(lang) ==
    CASE lang = "en" ->
            <<"Key_Concept", "Main_Topic", "Core_Content", "Important_Info", "Relevant_Term">>
      [] lang = "zh" ->
            <<"zh_key_concept", "zh_core_content", "zh_important_info", "zh_main_topic",
              "zh_related_term">>
      [] lang = "ja" ->
            <<"ja_keyword", "ja_important_word", "ja_main_concept", "ja_core_content",
              "ja_related_term">>
      [] lang = "mixed" ->
            <<"zh_core_concept", "Key_Concept", "ja_keyword", "Main_Topic",
              "zh_important_content">>
      [] OTHER -> <<"Concept", "Topic", "Content", "Information", "Term">>

\* error_suffix
ErrorSuffix(lang) ==
    CASE lang = "en" -> "_Error"
      [] lang = "ja" -> "_ja_error"
      [] OTHER -> "_zh_error"

\* while len(base_words) < count: base_words.extend(base_words[:count - len(base_words)])
RECURSIVE ExtendTo(_, _)
ExtendTo(w, count) ==
    IF Len(w) >= count THEN w ELSE ExtendTo(w \o Take(w, count - Len(w)), count)

\* _generate_fallback_keywords(lang, count, error_context); ctx: the error
\* context is not the empty string
GenerateFallbackKeywords(lang, count, ctx) ==
    LET base == BaseWords(lang)
        marked == IF ctx THEN [j \in 1..Min(count, Len(base)) |-> base[j] \o ErrorSuffix(lang)]
                  ELSE base
    IN Take(ExtendTo(marked, count), count)

AllBaseWords == UNION {{BaseWords(l)[j] : j \in 1..5} : l \in Langs}
Suffixes == {"", "_Error", "_ja_error", "_zh_error"}
WordsOf(bases, sufs) == {b \o x : b \in bases, x \in sufs}

\* the words that contain one of the fallback_indicators of _is_valid_keywords
IndicatorWords ==
    WordsOf({"Key_Concept", "Main_Topic", "Core_Content",
             "zh_key_concept", "zh_core_content", "zh_important_info", "zh_main_topic",
             "ja_keyword", "ja_important_word", "ja_main_concept", "ja_core_content"},
            Suffixes)
      \cup WordsOf(AllBaseWords, {"_Error"})
      \cup {"fallback_kw_1", "fallback_kw_2", "fallback_kw_3",
            "supplementary_1", "supplementary_2"}

\* re.search(r'[a-zA-Z]', kw)
LatinWords ==
    {"ai", "Ai", "Ml", "ai ", "Ai ", "ai ."}
      \cup WordsOf({"Key_Concept", "Main_Topic", "Core_Content", "Important_Info",
                    "Relevant_Term", "Concept", "Topic", "Content", "Information", "Term"},
                   Suffixes)
      \cup WordsOf(AllBaseWords, {"_Error"})

\* re.search(r'[\u4e00-\u9fff]', kw)
CJKWords ==
    {"zh_word"}
      \cup WordsOf({"zh_key_concept", "zh_core_content", "zh_important_info",
                    "zh_main_topic", "zh_related_term", "zh_core_concept",
                    "zh_important_content", "ja_important_word", "ja_main_concept",
                    "ja_core_content", "ja_related_term"}, Suffixes)
      \cup WordsOf(AllBaseWords, {"_zh_error"})

\* re.search(r'[\u3040-\u309f\u30a0-\u30ff]', kw)
KanaWords == WordsOf({"ja_keyword"}, Suffixes) \cup WordsOf(AllBaseWords, {"_ja_error"})

\* re.match(r'^[a-zA-Z][a-zA-Z\s\-_]{1,40}$', kw)
EnglishPattern(k) ==
    k \in {"ai", "Ai", "Ml", "ai ", "Ai "}
            \cup WordsOf({"Key_Concept", "Main_Topic", "Core_Content", "Important_Info",
                          "Relevant_Term", "Concept", "Topic", "Content", "Information",
                          "Term"}, {"", "_Error"})

\* one keyword through the cleaning loop of _postprocess_keywords; "" when
\* the keyword is dropped
Clean(lang, k) ==
    LET kw == StripPunct(k) IN
    CASE lang = "en" -> IF EnglishPattern(kw) THEN Title(kw) ELSE ""
      [] lang = "ja" -> IF kw \in CJKWords \cup KanaWords THEN kw ELSE ""
      [] OTHER -> kw

Kept(k) == k # ""

\* _postprocess_keywords: clean, drop malformed entries, dedupe, keep 2 * n
PostprocessKeywords(kws, lang, expected) ==
    IF kws = <<>> THEN GenerateFallbackKeywords(lang, expected, FALSE)
    ELSE Take(Dedupe(SelectSeq([j \in 1..Len(kws) |-> Clean(lang, kws[j])], Kept)),
              expected * 2)

HasIndicator(k) == k \in IndicatorWords

\* _is_valid_keywords: non-empty, not mostly fallback words, and some word in
\* the script of the language
IsValidKeywords(kws, lang) ==
    /\ kws # <<>>
    /\ ~(2 * Len(SelectSeq(kws, HasIndicator)) > Len(kws))
    /\ CASE lang = "en" -> \E j \in 1..Len(kws) : kws[j] \in LatinWords
         [] lang = "zh" -> \E j \in 1..Len(kws) : kws[j] \in CJKWords
         [] lang = "ja" -> \E j \in 1..Len(kws) : kws[j] \in CJKWords \cup KanaWords
         [] OTHER -> TRUE

\* generate_keywords: every exception of the LLM call ends in fallback words
GenerateKeywords(resp, lang) ==
    IF resp.raises THEN GenerateFallbackKeywords(lang, KwCount, TRUE)
    ELSE LET keywords == PostprocessKeywords(Take(resp.kws, 6), lang, KwCount)
         IN IF IsValidKeywords(keywords, lang) THEN keywords
            ELSE GenerateFallbackKeywords(lang, KwCount, TRUE)

\* keyword _one_job: filter, pad with supplementary words, cut to 3
OneJobKeywords(resp, lang) ==
    LET kws == SelectSeq(GenerateKeywords(resp, lang), NonBlank)
    IN IF kws = <<>> THEN <<"fallback_kw_1", "fallback_kw_2", "fallback_kw_3">>
       ELSE Take(IF Len(kws) < 3
                 THEN kws \o Take(<<"supplementary_1", "supplementary_2">>, 3 - Len(kws))
                 ELSE kws, 3)

\* _batch_process_with_context: the list of generate_keywords_batch as it is
BatchKeywords(resp, lang) == GenerateKeywords(resp, lang)

\* "processing_success" of generate_keywords_batch
ProcessingSuccess(resp, lang) == IsValidKeywords(GenerateKeywords(resp, lang), lang)

\* parse_response(task="keywords"): the stripped non-blank entries, kws[:3];
\* an exception of the call is not its business
ParseResponse(resp) ==
    LET kept == SelectSeq(resp.kws, NonBlank)
    IN Take([j \in 1..Len(kept) |-> Strip(kept[j])], 3)

\* the keywords of the upstream record, padded to 3 by the question runner
KwsIn == <<"u1", "u2", "u3">>

\* f"KW_{len(kws)+1}"
KwName(n) == <<"KW_1", "KW_2", "KW_3">>[n]

\* questions are told apart by what the normalizer asks of them: "q" is a
\* dict with a text, "bad" is anything else, "fill:..." is the question the
\* normalizer makes up (a dict with a text that names the keyword)
WellFormed(q) == q # "bad"

\* keep the well-formed questions, cut to n, pad with made-up ones
FixQuestions(qs, n, filler) ==
    LET kept == Take(SelectSeq(qs, WellFormed), n)
    IN kept \o [j \in 1..(n - Len(kept)) |-> filler]

\* the first item of keyword_questions whose keyword is kw up to case (0: none)
Candidate(groups, kw) ==
    IF \E g \in 1..Len(groups) : Lower(Strip(groups[g].keyword)) = Lower(kw)
    THEN CHOOSE g \in 1..Len(groups) :
            /\ Lower(Strip(groups[g].keyword)) = Lower(kw)
            /\ \A h \in 1..(g - 1) : Lower(Strip(groups[h].keyword)) # Lower(kw)
    ELSE 0

\* iterating a field that is a number raises TypeError
NormalizeRaises(data) == data.shape \in {"kw_number", "bq_number", "kwq_number"}

\* _normalize_questions: 3 keywords, expect_base base questions and expect_kw
\* questions for each keyword
NormalizeQuestions(data, expect_base, expect_kw) ==
    LET cut == Take(SelectSeq(data.keywords, NonBlank), 3)
        kws == cut \o [j \in 1..(3 - Len(cut)) |-> KwName(Len(cut) + j)]
    IN [shape |-> "ok",
        keywords |-> kws,
        base_questions |-> FixQuestions(data.base_questions, expect_base, "fill"),
        keyword_questions |->
            [j \in 1..Len(kws) |->
                LET c == Candidate(data.keyword_questions, kws[j])
                IN [keyword |-> kws[j],
                    questions |-> FixQuestions(IF c = 0 THEN <<>>
                                               ELSE data.keyword_questions[c].questions,
                                               expect_kw, "fill:" \o kws[j])]]]

\* n dicts with a text, after a malformed entry if the response has one
Questions(bad, n) == (IF bad THEN <<"bad">> ELSE <<>>) \o [j \in 1..n |-> "q"]

\* _safe_json_extract(raw), with the keywords of the input record where the
\* response has none
DataOf(resp) ==
    [shape |-> resp.shape,
     keywords |-> IF resp.kws = <<>> THEN KwsIn ELSE resp.kws,
     base_questions |-> Questions(resp.bad, resp.nbase),
     keyword_questions |->
        IF resp.pn = 0 THEN <<>>
        ELSE <<[keyword |-> resp.pkw, questions |-> Questions(resp.bad, resp.pn)]>>]

RECURSIVE SumSeq(_)
SumSeq(s) == IF s = <<>> THEN 0 ELSE Head(s) + SumSeq(Tail(s))

\* one attempt of the question runner: the call raised, or the normalizer
\* did, or the record is built from the normalized response
QuestionAttempt(resp) ==
    IF resp.raises \/ NormalizeRaises(DataOf(resp))
    THEN [raised |-> TRUE, keywords |-> <<>>, nq |-> 0, norm |-> DataOf(resp)]
    ELSE LET norm == NormalizeQuestions(DataOf(resp), BaseN, PerKwN)
         IN [raised |-> FALSE,
             keywords |-> norm.keywords,
             nq |-> Len(norm.base_questions)
                      + SumSeq([j \in 1..Len(norm.keyword_questions) |->
                                    Len(norm.keyword_questions[j].questions)]),
             norm |-> norm]

\* question _one_job with an LLM that answers every attempt alike: the record
\* of the response, or the placeholder written when the last attempt raised
QuestionRecord(resp) ==
    IF QuestionAttempt(resp).raised
    THEN [QuestionAttempt(resp) EXCEPT !.keywords = KwsIn, !.nq = 1]
    ELSE QuestionAttempt(resp)

\* ------------------------------------------------------- the text loader
\* the lines of a chunks.txt: blank; a JSON object with a text; source, page
\* and text separated by tabs; the same separated by "|||"; a block header
\* "[source | page N]"; any other text
TxtLineKinds == {"blank", "json", "tsv", "pipe", "header", "text"}

\* if len(tmp) >= 5
MinLineItems == 5

\* the first pass of _load_from_txt: one item for each line in one of the
\* three line formats
RECURSIVE LineItems(_, _)
LineItems(f, k) ==
    IF k > Len(f) THEN <<>>
    ELSE (IF f[k] \in {"json", "tsv", "pipe"} THEN <<[fmt |-> f[k], at |-> k]>> ELSE <<>>)
            \o LineItems(f, k + 1)

\* the text between the header in line k and the next header is not blank
HasBody(f, k) ==
    \E j \in (k + 1)..Len(f) :
        /\ f[j] \notin {"blank", "header"}
        /\ \A h \in (k + 1)..(j - 1) : f[h] # "header"

\* the second pass: one item for each header that is followed by a body
RECURSIVE BlockItems(_, _)
BlockItems(f, k) ==
    IF k > Len(f) THEN <<>>
    ELSE (IF f[k] = "header" /\ HasBody(f, k) THEN <<[fmt |-> "block", at |-> k]>> ELSE <<>>)
            \o BlockItems(f, k + 1)

\* (mutation of LoadFromTxt: the block items are added to a short list of
\* line items)
LoadFromTxtMixed(f) ==
    IF Len(LineItems(f, 1)) >= MinLineItems THEN LineItems(f, 1)
    ELSE LineItems(f, 1) \o BlockItems(f, 1)

\* _load_from_txt
LoadFromTxt(f) ==
    IF Len(LineItems(f, 1)) >= MinLineItems THEN LineItems(f, 1) ELSE BlockItems(f, 1)

TxtFiles == UNION {[1..n -> TxtLineKinds] : n \in 0..MaxTxtLines}

\* the responses the normalizers are applied to
KwLists == UNION {[1..n -> KwTokens] : n \in 0..MaxKw}

KeywordResponses ==
    {[raises |-> FALSE, kws |-> k, nbase |-> 0, bad |-> FALSE, pkw |-> "", pn |-> 0,
      shape |-> "ok"] : k \in KwLists}
      \cup {[NoResp EXCEPT !.raises = TRUE]}

QuestionKwLists == UNION {[1..n -> {"ai", "Ml", "ai ", ""}] : n \in 0..MaxKw}

QuestionResponses ==
    {[raises |-> FALSE, kws |-> k, nbase |-> b, bad |-> x, pkw |-> w, pn |-> n,
      shape |-> "ok"] :
        k \in QuestionKwLists, b \in {0, BaseN - 1, BaseN + 1}, x \in BOOLEAN,
        w \in {"ai", "Ai "}, n \in 0..(PerKwN + 1)}
      \cup {[NoResp EXCEPT !.shape = s] : s \in {"kw_number", "bq_number", "kwq_number"}}
      \cup {[NoResp EXCEPT !.raises = TRUE]}

\* the arguments of _generate_fallback_keywords
MaxCount == 6

FnInit ==
    /\ \/ app \in {[NoApp EXCEPT !.arg = "keyword", !.resp = r, !.lang = l] :
                        r \in KeywordResponses, l \in Langs}
       \/ app \in {[NoApp EXCEPT !.arg = "question", !.resp = r] : r \in QuestionResponses}
       \/ app \in {[NoApp EXCEPT !.arg = "fallback", !.lang = l, !.count = c, !.ctx = x] :
                        l \in Langs, c \in 0..MaxCount, x \in BOOLEAN}
       \/ app \in {[NoApp EXCEPT !.arg = "txt", !.txt = f] : f \in TxtFiles}
    /\ variant = "keyword"
    /\ workers = 1
    /\ retries = 0
    /\ file = <<>>
    /\ pre = <<>>
    /\ items = <<>>
    /\ pc = "fn"
    /\ st = <<>>
    /\ att = <<>>
    /\ res = <<>>
    /\ exc = <<>>
    /\ nsub = 0
    /\ preFin = {}
    /\ waitq = <<>>
    /\ collected = <<>>
    /\ results = <<>>
    /\ disk = <<>>
    /\ buf = <<>>
    /\ intr = NoIntr
    /\ backoff = 0
    /\ slept = <<>>
    /\ mon = NoMon
    /\ cnt = NoCnt
    /\ gk = <<>>
    /\ limit = 0

\* the keyword runner builds the keywords of its record (sequential and
\* parallel mode)
ApplyOneJob ==
    /\ app.op = "none"
    /\ app.arg = "keyword"
    /\ app' = [app EXCEPT !.op = "one_job",
                          !.out.keywords = OneJobKeywords(app.resp, app.lang)]
    /\ UNCHANGED <<dvars, mon>>

\* batch mode builds them
ApplyBatch ==
    /\ app.op = "none"
    /\ app.arg = "keyword"
    /\ app' = [app EXCEPT !.op = "batch",
                          !.out.keywords = BatchKeywords(app.resp, app.lang),
                          !.out.success = ProcessingSuccess(app.resp, app.lang)]
    /\ UNCHANGED <<dvars, mon>>

\* the template parses a keywords response
ApplyParseResponse ==
    /\ app.op = "none"
    /\ app.arg = "keyword"
    /\ ~app.resp.raises
    /\ app' = [app EXCEPT !.op = "parse_response",
                          !.out.keywords = ParseResponse(app.resp)]
    /\ UNCHANGED <<dvars, mon>>

\* the keyword client post-processes the list of a response
ApplyPostprocess ==
    /\ app.op = "none"
    /\ app.arg = "keyword"
    /\ ~app.resp.raises
    /\ app' = [app EXCEPT !.op = "postprocess",
                          !.out.keywords = PostprocessKeywords(app.resp.kws, app.lang, KwCount)]
    /\ UNCHANGED <<dvars, mon>>

\* the keyword client makes up placeholder keywords
ApplyFallback ==
    /\ app.op = "none"
    /\ app.arg = "fallback"
    /\ app' = [app EXCEPT !.op = "fallback",
                          !.out.keywords = GenerateFallbackKeywords(app.lang, app.count, app.ctx)]
    /\ UNCHANGED <<dvars, mon>>

\* the question runner builds its record
ApplyQuestion ==
    /\ app.op = "none"
    /\ app.arg = "question"
    /\ app' = [app EXCEPT !.op = "question", !.out = QuestionRecord(app.resp)]
    /\ UNCHANGED <<dvars, mon>>

\* load_chunks reads a chunks.txt
ApplyLoadFromTxt ==
    /\ app.op = "none"
    /\ app.arg = "txt"
    /\ app' = [app EXCEPT !.op = "load_txt", !.out = [items |-> LoadFromTxt(app.txt)]]
    /\ UNCHANGED <<dvars, mon>>

FnNext ==
    \/ ApplyLoadFromTxt
    \/ ApplyOneJob
    \/ ApplyBatch
    \/ ApplyParseResponse
    \/ ApplyPostprocess
    \/ ApplyFallback
    \/ ApplyQuestion

FnSpec == FnInit /\ [][FnNext]_vars

\* ======================================================= resource monitor
\* the functions that run a monitor thread around a dispatch:
\* parallel_answer_generation (gpu_monitor_thread), the keyword benchmark's
\* run_once (gpu_sampler) and the answer benchmark's run_benchmark
\* (gpu_monitor_thread of bench.py)
MonHosts == {"answer", "bench", "abench"}

\* the dispatch inside the host is a black box that completes or raises
MonInit ==
    /\ mon \in {[NoMon EXCEPT !.host = h, !.hasdir = d, !.smi = g] :
                    h \in MonHosts, d \in BOOLEAN, g \in BOOLEAN}
    /\ (mon.host # "answer" => mon.hasdir)
    /\ app = NoApp
    /\ variant = "answer"
    /\ workers = 1
    /\ retries = 0
    /\ file = <<>>
    /\ pre = <<>>
    /\ items = <<>>
    /\ pc = "mon"
    /\ st = <<>>
    /\ att = <<>>
    /\ res = <<>>
    /\ exc = <<>>
    /\ nsub = 0
    /\ preFin = {}
    /\ waitq = <<>>
    /\ collected = <<>>
    /\ results = <<>>
    /\ disk = <<>>
    /\ buf = <<>>
    /\ intr = NoIntr
    /\ backoff = 0
    /\ slept = <<>>
    /\ cnt = NoCnt
    /\ gk = <<>>
    /\ limit = 0

\* gpu_thread.start(); run_once starts its sampler only if nvidia-smi exists
MonStart ==
    /\ mon.main = "init"
    /\ mon' = [mon EXCEPT !.main = "setup",
                          !.thr = IF mon.host = "bench" /\ ~mon.smi THEN "new" ELSE "loop"]
    /\ UNCHANGED <<dvars, app>>

\* the statements between start() and the try block:
\* os.makedirs(os.path.dirname(output_file)) raises when the path has no
\* directory part
MonSetup ==
    /\ mon.main = "setup"
    /\ mon' = [mon EXCEPT !.main = IF mon.host = "answer" /\ ~mon.hasdir
                                   THEN "crash" ELSE "dispatch"]
    /\ UNCHANGED <<dvars, app>>

\* the dispatch ends, normally or with an exception; only
\* parallel_answer_generation has a finally clause
MonDispatch ==
    /\ mon.main = "dispatch"
    /\ \E ok \in BOOLEAN :
        mon' = [mon EXCEPT !.raised = ~ok,
                           !.main = IF ok \/ mon.host # "bench" THEN "finally" ELSE "crash"]
    /\ UNCHANGED <<dvars, app>>

\* stop_event.set()
MonStop ==
    /\ mon.main = "finally"
    /\ mon' = [mon EXCEPT !.stop = TRUE, !.main = "join"]
    /\ UNCHANGED <<dvars, app>>

\* gpu_thread.join() waits for the thread; run_once calls join(timeout=2),
\* which returns when the thread has exited or the timeout has passed
MonJoin ==
    /\ mon.main = "join"
    /\ mon.host # "bench" => mon.thr = "exited"
    /\ mon' = [mon EXCEPT !.main = IF mon.raised THEN "crash" ELSE "report"]
    /\ UNCHANGED <<dvars, app>>

\* the performance report reads the statistics
MonReport ==
    /\ mon.main = "report"
    /\ mon' = [mon EXCEPT !.read = TRUE, !.main = "exit"]
    /\ UNCHANGED <<dvars, app>>

\* while not stop_event.is_set(): (the thread of bench.py returns at once
\* when there is no nvidia-smi)
MonCheck ==
    /\ mon.thr = "loop"
    /\ mon' = [mon EXCEPT !.thr = IF mon.stop \/ (mon.host = "abench" /\ ~mon.smi)
                                  THEN "exited" ELSE "sampling"]
    /\ UNCHANGED <<dvars, app>>

\* how one nvidia-smi query can end: output with a utilisation figure; the
\* command is not there; exit code # 0; timeout; a field that is no number;
\* a line with fewer fields than expected
FailedOutcomes == {"missing", "nonzero", "timeout", "unparsable", "short"}

SampleOutcomes(smi) == IF smi THEN {"ok", "nonzero", "timeout", "unparsable", "short"}
                       ELSE {"missing"}

Max(a, b) == IF a > b THEN a ELSE b

\* (mutation of AfterSample: the handler catches the timeout only, any other
\* exception ends the thread)
AfterSampleTimeoutOnly(h, o, v, m) ==
    IF o = "ok" THEN [max |-> Max(m, v), wrote |-> h # "abench" \/ v > 0, thr |-> "loop"]
    ELSE IF o \in {"timeout", "nonzero"} THEN [max |-> m, wrote |-> FALSE, thr |-> "loop"]
    ELSE [max |-> m, wrote |-> FALSE, thr |-> "dead"]

\* the body of the monitor loop for a query that ended with outcome o and
\* utilisation v: the new maximum, whether the shared statistics were
\* written, the state of the thread.  gpu_sampler appends a sample of zeros
\* when no line of the output has the expected fields
AfterSample(h, o, v, m) ==
    IF o = "ok" THEN [max |-> Max(m, v), wrote |-> h # "abench" \/ v > 0, thr |-> "loop"]
    ELSE [max |-> m, wrote |-> h = "bench" /\ o = "short", thr |-> "loop"]

\* one nvidia-smi query and what the loop does with its result; then the
\* thread sleeps
MonSample ==
    /\ mon.thr = "sampling"
    /\ \E o \in SampleOutcomes(mon.smi), v \in 0..MaxUtil :
        LET a == AfterSample(mon.host, o, v, mon.max) IN
        mon' = [mon EXCEPT !.thr = a.thr,
                           !.max = a.max,
                           !.last = o,
                           !.n = IF a.wrote /\ mon.n < MaxSamples THEN mon.n + 1 ELSE mon.n,
                           !.late = mon.late \/ (a.wrote /\ mon.read)]
    /\ UNCHANGED <<dvars, app>>

MonNext ==
    \/ MonStart
    \/ MonSetup
    \/ MonDispatch
    \/ MonStop
    \/ MonJoin
    \/ MonReport
    \/ MonCheck
    \/ MonSample

MonSpec == MonInit /\ [][MonNext]_vars

\* ================================================================ claims
\* every record the dispatcher has emitted so far, in emission order
Output == disk \o buf \o (IF pc = "done" THEN <<>> ELSE results)

\* the dispatch ran to its end (template and bu2 return before any dispatch
\* when the loader found no item)
DispatchCompleted == pc = "done" /\ ~(variant \in {"template", "bu2"} /\ N = 0)

\* C1: no loss -- when the dispatch run completes, the output file holds
\* exactly N lines (N = number of valid work items), each with a distinct id
\* drawn from the load-time range 0..N-1.
NoLoss ==
    (DispatchCompleted /\ variant \in {"keyword", "question", "bu2"}) =>
        /\ Len(disk) = N
        /\ \A a \in 1..Len(disk) : disk[a].id \in 0..(N - 1)
        /\ \A a, b \in 1..Len(disk) : a # b => disk[a].id # disk[b].id

\* C2: the per-item runner never raises to its caller -- the future of an
\* item never ends with an exception, a failure is a returned record.
RunnerNeverRaises ==
    variant \in {"answer", "template"} => \A i \in Idx : st[i] # "raised"

\* the retry setting a runner is configured with
ConfiguredRetries(v, r) ==
    CASE v = "question" -> r
      [] v = "answer" -> AnswerRetryCount
      [] OTHER -> TemplateMaxRetries

\* item i went through the retry loop with an LLM that raised on every call
AllCallsRaised(i) == Finished(i) /\ att[i] > 0 /\ items[i].llm = "down"

\* the item ended failed and carries the message of its last exception
EndedFailedWithLast(i) ==
    \/ st[i] = "done" /\ res[i].err = att[i]
    \/ st[i] = "raised" /\ exc[i] = att[i]

OneBadItemNeverAborts ==
    (~intr.on /\ variant \in {"template", "keyword", "answer"}) =>
        /\ pc \notin {"aborting", "crashed"}
        /\ DispatchCompleted =>
            \A i \in Idx : \E a \in 1..Len(disk) :
                /\ disk[a].item = i
                /\ st[i] = "raised" => disk[a].err # NoErr

\* the processing of item i failed: it had no context, or its last LLM call raised
ProcessingFailed(i) ==
    \/ att[i] = 0
    \/ LLMRaises(items[i], att[i])

\* C5: in every output record the error field is present iff the item's
\* processing failed.
ErrorIffFailed ==
    variant \in {"answer", "keyword"} =>
        \A a \in 1..Len(Output) :
            Output[a].kind # "old" =>
                ((Output[a].err # NoErr) <=> ProcessingFailed(Output[a].item))

\* C6: the sink flushes after every record -- whenever the collection loop is
\* about to consume the next result, nothing written is still in the buffer.
FlushedAfterEveryWrite ==
    variant \in {"answer", "keyword", "question"} =>
        ((pc \in {"collect", "seq"} /\ Len(collected) < N) => buf = <<>>)

\* the items of the records of a sequence
RECURSIVE ItemsOf(_)
ItemsOf(seq) == IF seq = <<>> THEN <<>> ELSE <<Head(seq).item>> \o ItemsOf(Tail(seq))

\* C7: the sink never holds more than one collected but unwritten record and
\* writes the records in the order in which they were collected.
SinkStreamsInOrder ==
    variant \in {"template", "bu1", "question"} =>
        /\ pc # "done" => Len(results) <= 1
        /\ DispatchCompleted => ItemsOf(disk) = collected

IsPrefix(s, t) == Len(s) <= Len(t) /\ SubSeq(t, 1, Len(s)) = s

\* C8 (as stated): append mode -- the lines the output file held before the
\* run stay in it, unchanged and ahead of the new lines.
AppendMode ==
    variant \in {"answer", "question", "keyword"} => IsPrefix(pre, disk)

\* C8 (amended): the output stream is opened in truncating write mode -- once
\* the run has opened it, no line from before the run is left in the file,
\* and a completed run leaves exactly the lines it wrote.
TruncatingOpen ==
    (variant \in {"answer", "question", "keyword"} /\ pc \notin {"init", "fatal"}) =>
        /\ \A a \in 1..Len(disk) : disk[a] # OldLine
        /\ pc = "done" => ItemsOf(disk) = collected

TruncatingOpenWitness ==
    /\ variant \in {"answer", "question", "keyword"}
    /\ pre # <<>>
    /\ pc = "done"
    /\ disk # <<>>

\* C9: sequential degeneracy -- with one worker the items are processed
\* strictly one after another and the output keeps the submission order.
SequentialDegeneracy ==
    (workers = 1 /\ variant \in {"keyword", "question"}) =>
        /\ Cardinality({i \in Idx : Active(i)}) <= 1
        /\ \A i, j \in Idx : (i < j /\ (Active(j) \/ Finished(j))) => Finished(i)
        /\ \A a, b \in 1..Len(Output) :
            (a < b /\ Output[a].kind # "old" /\ Output[b].kind # "old")
                => Output[a].item < Output[b].item

\* the runner as a function of its item: the record the plain sequential
\* loop gets for item i, starting with attempt k
RECURSIVE RunOne(_, _, _, _, _)
RunOne(v, r, it, i, k) ==
    IF ~LLMRaises(it, k) THEN SuccessRec(v, it, i, k)
    ELSE IF k < MaxAttempts(v, r) THEN RunOne(v, r, it, i, k + 1)
    ELSE ExhaustedRec(v, it, i, k)

\* C10: under the deterministic mock a run with any worker count leaves the
\* records of the one-worker sequential run -- one line per item, the same
\* id and payload per item -- in some order.
SameRecordsAsSequential ==
    (DispatchCompleted /\ variant \in {"keyword", "question"}) =>
        /\ Len(disk) = N
        /\ {disk[a] : a \in 1..Len(disk)} =
                {RunOne(variant, retries, items[i], i, 1) : i \in Idx}

SameRecordsWitness ==
    /\ pc = "done"
    /\ variant \in {"keyword", "question"}
    /\ workers > 1
    /\ N > 1
    /\ ItemsOf(disk) # collected \/ collected[1] > collected[2]

\* C11: at every moment at most worker_count items have a runner executing
\* (in an LLM call or in a backoff sleep); every other submitted item that has
\* not finished is queued and has not been started.
WorkerBound ==
    variant \in {"answer", "question", "keyword"} =>
        /\ Cardinality({i \in Idx : Active(i)}) <= workers
        /\ \A i \in Idx : (~Active(i) /\ ~Finished(i)) =>
                /\ st[i] \in {"new", "queued"}
                /\ att[i] = 0
                /\ res[i] = NoRec

WorkerBoundWitness ==
    /\ variant \in {"answer", "question", "keyword"}
    /\ Cardinality({i \in Idx : Active(i)}) = workers
    /\ \E i \in Idx : st[i] = "queued"

\* C12: cancellation -- once the run is interrupted no item that was waiting
\* in the queue is started, and the output file ends with exactly the k
\* records written before the interrupt, whole and in the order written.
Cancellation ==
    (intr.on /\ variant \in {"answer", "question", "keyword"}) =>
        /\ \A i \in intr.queued : st[i] = "queued"
        /\ pc = "crashed" =>
                /\ Len(disk) = intr.k
                /\ ItemsOf(disk) = SubSeq(collected, 1, intr.k)

\* C13: under weak fairness, with LLM calls that return or raise, every
\* dispatch run terminates -- no item gets more than max_retries + 1 attempts,
\* the collection loop consumes every result and the run reaches its final
\* summary (unless the input could not be loaded or the user interrupted it).
DispatchTerminates ==
    (variant \in {"question", "answer"}) =>
        /\ [](\A i \in Idx : att[i] <= ConfiguredRetries(variant, retries) + 1)
        /\ <>(pc \in {"done", "fatal"} \/ intr.on)

\* C14: every keyword-task record has a keywords list of exactly 3 entries,
\* whatever the LLM returned and whichever mode (sequential or parallel runner,
\* batch, template parser) built it.
KeywordsExactlyThree ==
    app.op \in {"one_job", "batch", "parse_response"} => Len(app.out.keywords) = 3

\* C15: every question-task record has exactly 3 keywords and exactly
\* base_n + 3 * per_kw_n questions, when the LLM responded and when the
\* retries were exhausted.
QuestionSchema ==
    app.op = "question" =>
        /\ Len(app.out.keywords) = 3
        /\ app.out.nq = BaseN + 3 * PerKwN

\* C16: the loader gives each work item the id of its zero-based position
\* among the successfully parsed items; blank and malformed lines are skipped,
\* are not fatal and consume no id.
TaskSourceIds ==
    /\ variant \in {"question", "answer"} => pc # "fatal"
    /\ variant = "question" => \A i \in Idx : items[i].line = i - 1

AttemptCount ==
    variant = "answer" =>
        \A i \in Idx : (st[i] = "done" /\ res[i].kind = "ok") =>
            /\ res[i].att = att[i]
            /\ res[i].att >= 1
            /\ res[i].att <= AnswerRetryCount

AttemptCountWitness ==
    /\ variant = "answer"
    /\ \E i \in Idx : st[i] = "done" /\ res[i].kind = "ok" /\ res[i].att = 2 /\ att[i] = 2

MonitorStopped ==
    /\ mon.read => mon.thr \in {"new", "exited"}
    /\ mon.main \in {"exit", "crash"} =>
            (mon.thr = "new" \/ (mon.stop /\ mon.thr = "exited"))
    /\ ~mon.late

\* C21: a failed monitor sample (command missing, non-zero exit, timeout,
\* unparsable output) is skipped silently -- it leaves the maximum observed
\* so far unchanged, the monitor loop goes on, and the hosting function is
\* not disturbed.
FailedSampleSkipped ==
    [][(mon.thr = "sampling" /\ mon'.thr # "sampling" /\ mon'.last \in FailedOutcomes) =>
            /\ mon'.max = mon.max
            /\ mon'.thr = "loop"
            /\ mon'.main = mon.main
            /\ mon'.raised = mon.raised]_vars

FailedSampleWitness ==
    /\ mon.last \in FailedOutcomes
    /\ mon.max > 0
    /\ mon.thr = "sampling"
    /\ mon.main = "dispatch"

\* the record the collection loop gets from the future of item i
RecordOf(i) ==
    IF st[i] = "raised" THEN FutureErrorRec(variant, items[i], i, exc[i]) ELSE res[i]

\* C22: single-writer discipline -- the output and the counters change only
\* in steps of the collecting (main) thread, never in a step of a worker, and
\* every line of the output is the whole record of one collected item, in
\* the order of collection.
SingleWriter ==
    /\ []((variant \in {"answer", "question", "keyword"} /\ pc \notin {"init", "fatal"}) =>
            /\ IsPrefix(ItemsOf(Output), collected)
            /\ \A a \in 1..Len(Output) : Output[a] = RecordOf(Output[a].item))
    /\ [][(variant \in {"answer", "question", "keyword"}
            /\ (Output' # Output \/ cnt' # cnt)) =>
                (collected' # collected \/ pc' # pc)]_vars

SingleWriterWitness ==
    /\ variant \in {"answer", "question"}
    /\ pc = "collect"
    /\ Len(Output) = 1
    /\ \E i \in Idx : st[i] = "running" /\ att[i] > 0

\* C23: idempotent normalization -- applying a normalizer to the payload it
\* has produced returns that payload, for any raw input: the keyword
\* post-processor on its keyword list, the question normalizer on its
\* normalized response.
NormalizerIdempotent ==
    /\ app.op = "postprocess" =>
            PostprocessKeywords(app.out.keywords, app.lang, KwCount) = app.out.keywords
    /\ (app.op = "question" /\ ~app.out.raised) =>
            NormalizeQuestions(app.out.norm, BaseN, PerKwN) = app.out.norm

\* C24: normalization soft-failure -- a response that parses as JSON but does
\* not meet the schema shape (missing, wrongly typed or wrong-length fields)
\* is corrected by the normalizer within the same attempt: the attempt does
\* not raise, no retry is consumed, and the record has the full schema.
NormalizationSoftFailure ==
    (app.op = "question" /\ ~app.resp.raises) =>
        /\ ~app.out.raised
        /\ Len(app.out.keywords) = 3
        /\ app.out.nq = BaseN + 3 * PerKwN

\* C25: every keyword list of the fallback generator, for every language
\* code and count, is classified as not valid by the validity check, and a
\* fallback is never reported as a processing success.
FallbackNeverValid ==
    /\ app.op = "fallback" => ~IsValidKeywords(app.out.keywords, app.lang)
    /\ (app.op = "batch" /\ app.resp.raises) => ~app.out.success

\* the one-based numbers of the lines of f that hold a record, in file order
RECURSIVE ValidLineNos(_, _)
ValidLineNos(f, k) ==
    IF k > Len(f) THEN <<>>
    ELSE (IF f[k].k = "rec" THEN <<k>> ELSE <<>>) \o ValidLineNos(f, k + 1)

\* C26: with an item cap L > 0 the run processes exactly the first min(L, N)
\* valid items, in input order; with L = 0 it processes all N valid items.
ItemCap ==
    pc \notin {"init", "fatal"} =>
        LET valid == ValidLineNos(file, 1) IN
        /\ N = IF limit > 0 /\ limit < Len(valid) THEN limit ELSE Len(valid)
        /\ \A i \in Idx : items[i].line = valid[i] - 1
        /\ nsub <= N
        /\ DispatchCompleted =>
                /\ nsub = N
                /\ \A i \in Idx : \E a \in 1..N : collected[a] = i

ItemCapWitness ==
    /\ pc = "done"
    /\ limit = 1
    /\ N = 1
    /\ Len(file) = 2
    /\ file[1].k = "bad"
    /\ file[2].k = "rec"
    /\ Len(collected) = 1

\* C27: format auto-detection in the text loader -- the result is the list of
\* the line-parsed items (JSON per line, tab-separated, "|||"-separated) when
\* that list has at least 5 items, otherwise the list of the header-block
\* parser alone; the two lists are never mixed and fewer than 5 line-parsed
\* items are not returned.
TxtAutoDetect ==
    app.op = "load_txt" =>
        LET line == LineItems(app.txt, 1)
            out == app.out.items
        IN /\ Len(line) >= 5 => out = line
           /\ Len(line) < 5 => out = BlockItems(app.txt, 1)
           /\ \A a, b \in 1..Len(out) : (out[a].fmt = "block") <=> (out[b].fmt = "block")
           /\ Len(line) < 5 => \A a \in 1..Len(out) : out[a].fmt = "block"

TxtAutoDetectWitness ==
    /\ app.op = "load_txt"
    /\ Len(LineItems(app.txt, 1)) \in 1..4
    /\ Len(app.out.items) >= 1

\* the runner of item i has returned or raised after the A-th of its A
\* attempts failed
FailedAllAttempts(i) ==
    /\ Finished(i)
    /\ att[i] = MaxAttempts(variant, retries)
    /\ LLMRaises(items[i], att[i])

\* C28: a runner sleeps only between attempts -- every sleep is entered after
\* a failed attempt that another attempt follows, the final failed attempt
\* ends the runner in the same step with no sleep, an item that fails all A
\* of its attempts has slept exactly A - 1 times, and an item that succeeds
\* on its first attempt has never slept.
SleepsOnlyBetweenAttempts ==
    /\ [](\A i \in Idx :
            /\ FailedAllAttempts(i) => Len(slept[i]) = MaxAttempts(variant, retries) - 1
            /\ (st[i] = "done" /\ res[i].kind = "ok" /\ att[i] = 1) => slept[i] = <<>>
            /\ st[i] = "sleeping" => att[i] < MaxAttempts(variant, retries))
    /\ [][\A i \in Idx :
            /\ (i \in DOMAIN slept /\ slept'[i] # slept[i]) =>
                    /\ st'[i] = "sleeping"
                    /\ att'[i] = att[i] + 1
                    /\ att'[i] < MaxAttempts(variant, retries)
                    /\ Len(slept'[i]) = att'[i]
            /\ (i \in DOMAIN att /\ att'[i] # att[i] /\ att'[i] = MaxAttempts(variant, retries)) =>
                    /\ st'[i] \in {"done", "raised"}
                    /\ slept'[i] = slept[i]]_vars

SleepsOnlyBetweenAttemptsWitness ==
    /\ variant \in {"question", "template", "answer", "keyword"}
    /\ \E i \in Idx : FailedAllAttempts(i) /\ Len(slept[i]) >= 2
    /\ \E j \in Idx : st[j] = "done" /\ res[j].kind = "ok" /\ att[j] = 1 /\ slept[j] = <<>>

\* C29: in the keyword pipeline the two retry layers do not multiply --
\* _one_job calls generate_keywords exactly once per item, and the LLM is
\* invoked at most retry_count times per item, never
\* (retries + 1) * retry_count times.
RetryLayersDoNotMultiply ==
    variant = "keyword" =>
        \A i \in Idx :
            /\ att[i] <= KeywordRetryCount
            /\ gk[i] <= 1
            /\ att[i] > 0 => gk[i] = 1
            /\ (Finished(i) /\ exc[i] = NoErr) => gk[i] = 1
            /\ st[i] = "sleeping" => att[i] < KeywordRetryCount

RetryLayersWitness ==
    /\ variant = "keyword"
    /\ \E i \in Idx :
        /\ st[i] = "done"
        /\ items[i].llm = "down"
        /\ att[i] = KeywordRetryCount
        /\ gk[i] = 1
        /\ res[i].kind = "fallback"

\* C30: in the parallel answer dispatcher successful_answers + failed_answers
\* equals the number of lines written to the output file after every result
\* consumed, a completed run has counted every submitted question, and each
\* result increments exactly one of the two counters by one.
CountersMatchOutput ==
    /\ []((variant = "answer" /\ pc \notin {"init", "fatal"}) =>
            /\ cnt.successful_answers + cnt.failed_answers = Len(Output)
            /\ cnt.successful_answers + cnt.failed_answers <= Len(collected)
            /\ cnt.successful_answers = Cardinality({a \in 1..Len(Output) : Output[a].kind = "ok"})
            /\ pc = "done" =>
                    /\ cnt.successful_answers + cnt.failed_answers = nsub
                    /\ nsub = N)
    /\ [][(variant = "answer" /\ collected' # collected /\ pc' = pc) =>
                /\ Len(Output') = Len(Output) + 1
                /\ \/ /\ cnt'.successful_answers = cnt.successful_answers + 1
                      /\ cnt'.failed_answers = cnt.failed_answers
                   \/ /\ cnt'.successful_answers = cnt.successful_answers
                      /\ cnt'.failed_answers = cnt.failed_answers + 1]_vars

CountersMatchOutputWitness ==
    /\ variant = "answer"
    /\ pc = "done"
    /\ cnt.successful_answers = 1
    /\ cnt.failed_answers = 1
    /\ Len(Output) = 2

====
